---- MODULE Spec2Model ----
(***************************************************************************)
(* The anchor-bridge program (guardian set, message publication, signature *)
(* sets, VAA posting) as a state machine over the accounts it reads and    *)
(* writes.  Every instruction is one action: the accounts its Accounts      *)
(* struct hands to the handler, the handler, and what is stored when it    *)
(* returns; an instruction that returns Err leaves the accounts as they    *)
(* were (the ledger discards a failed instruction).  The handlers are also *)
(* applied on their own to the contexts they can be handed, where what a   *)
(* handler has written when it returns is seen as it is.                   *)
(* The instruction format of the ee-vaa-program is modelled beside it.     *)
(***************************************************************************)
EXTENDS Integers, Sequences, FiniteSets, TLC

(* ------------------------------ bounds -------------------------------- *)
\* latest value of the clock sysvar
MaxTime == 2
\* number of guardian keys of the guardian set
GuardianKeys == 3
\* signature slots of a Signatures account
SigSlots == 2

(* ------------------------- program constants -------------------------- *)
MAX_LEN_GUARDIAN_KEYS == 20
VAA_TX_FEE == 180000
MAX_PAYLOAD_SIZE == 400
ACCOUNT_STORAGE_OVERHEAD == 128
DEFAULT_LAMPORTS_PER_BYTE_YEAR == 3480
DEFAULT_EXEMPTION_THRESHOLD == 2
\* size_of::<Bridge>(): Index (u32) and BridgeConfig (one u32)
SIZE_OF_BRIDGE == 8
\* size_of::<SignatureState>(): 20 * 65 + 32 + 4
SIZE_OF_SIGNATURE_STATE == 1336
\* size_of::<ClaimedVAA>() of publish_message.rs: 32 + 4
SIZE_OF_CLAIMED_VAA == 36

MIN_BRIDGE_BALANCE ==
  ((ACCOUNT_STORAGE_OVERHEAD + SIZE_OF_BRIDGE) * DEFAULT_LAMPORTS_PER_BYTE_YEAR)
     * DEFAULT_EXEMPTION_THRESHOLD

calculate_transfer_fee == SIZE_OF_SIGNATURE_STATE + SIZE_OF_CLAIMED_VAA + VAA_TX_FEE

(* ------------------------------ u64 ----------------------------------- *)
\* A u64 is four 16-bit limbs, least significant first.
Limb == 65536

U64(n) == <<n % Limb, (n \div Limb) % Limb, 0, 0>>

U64_MAX == <<Limb - 1, Limb - 1, Limb - 1, Limb - 1>>

\* a < b on u64
U64Lt(a, b) ==
  \E i \in 1..4 : a[i] < b[i] /\ \A j \in (i + 1)..4 : a[j] = b[j]

\* u64::checked_add: [some |-> FALSE] on overflow
checked_add(a, b) ==
  LET s1 == a[1] + b[1]
      s2 == a[2] + b[2] + (s1 \div Limb)
      s3 == a[3] + b[3] + (s2 \div Limb)
      s4 == a[4] + b[4] + (s3 \div Limb)
  IN  IF s4 >= Limb
        THEN [some |-> FALSE, val |-> U64(0)]
        ELSE [some |-> TRUE, val |-> <<s1 % Limb, s2 % Limb, s3 % Limb, s4 % Limb>>]

\* u64::checked_sub: [some |-> FALSE] on underflow
checked_sub(a, b) ==
  LET d1 == a[1] - b[1]
      b1 == IF d1 < 0 THEN 1 ELSE 0
      d2 == a[2] - b[2] - b1
      b2 == IF d2 < 0 THEN 1 ELSE 0
      d3 == a[3] - b[3] - b2
      b3 == IF d3 < 0 THEN 1 ELSE 0
      d4 == a[4] - b[4] - b3
  IN  IF d4 < 0
        THEN [some |-> FALSE, val |-> U64(0)]
        ELSE [some |-> TRUE,
              val |-> <<d1 + b1 * Limb, d2 + b2 * Limb, d3 + b3 * Limb, d4>>]

\* Option::unwrap_or
unwrap_or(opt, default) == IF opt.some THEN opt.val ELSE default

\* u64::from_le_bytes of eight bytes
from_le_bytes(b) ==
  <<b[1] + 256 * b[2], b[3] + 256 * b[4], b[5] + 256 * b[6], b[7] + 256 * b[8]>>

\* u64::to_le_bytes (the bincode encoding of lamports)
to_le_bytes(a) ==
  <<a[1] % 256, a[1] \div 256, a[2] % 256, a[2] \div 256,
    a[3] % 256, a[3] \div 256, a[4] % 256, a[4] \div 256>>

(* ----------------------------- bytes ---------------------------------- *)
\* WriteBytesExt::write_u32::<BigEndian>
write_u32_be(x) ==
  <<(x \div 16777216) % 256, (x \div 65536) % 256, (x \div 256) % 256, x % 256>>

\* a 32-byte public key or address whose bytes all equal b
Key(b) == [i \in 1..32 |-> b]

SYSTEM_PROGRAM_ID == Key(0)
DEFAULT_PUBKEY == Key(0)
BRIDGE_STATE == Key(1)
OTHER_ACCOUNT == Key(2)
EMITTER == Key(69)
OTHER_PROGRAM == Key(9)


(* ----------------------------- results -------------------------------- *)
Ok == "Ok"

\* What reaches the accounts when an instruction returns.  The ledger runs
\* an instruction as one atomic unit: Ok persists what the handler wrote,
\* Err persists nothing.  This is the ledger's rule, not the program's; what
\* a handler itself has written when it returns Err is in its own result.
Commit(result, before, after) == IF result = Ok THEN after ELSE before

(* ------------------------- account contents --------------------------- *)
\* an address holding no account
NoAccount == [allocated |-> FALSE]

\* PostedMessage::default()
DefaultPostedMessage ==
  [vaa_version |-> 0, vaa_time |-> 0, vaa_signature_account |-> DEFAULT_PUBKEY,
   submission_time |-> 0, nonce |-> 0, emitter_chain |-> "Unset",
   emitter_address |-> Key(0), payload |-> <<>>]

\* ClaimedVAA::default()
DefaultClaimedVAA == [hash |-> Key(0), vaa_time |-> 0]

\* a guardian key hash, [u8; 20]
GuardianKey(i) == [j \in 1..20 |-> i]

\* the GuardianSetInfo of a newly created, zeroed account; len_keys is the
\* field post_vaa reads, which the struct has to hold for the read to be there
ZeroGuardianSetInfo ==
  [index |-> 0, keys |-> <<>>, len_keys |-> 0, creation_time |-> 0,
   expiration_time |-> 0]

\* guardian_set.len_keys
len_keys(guardian_set) == guardian_set.len_keys

\* What len_keys can hold beside the keys. The struct declares no such field
\* and no handler assigns it: it is 0, as the account was created, where the
\* field is only declared, and the number of keys where it is kept with keys.
LenKeys(keys) == {0, Len(keys)}

\* an empty signature slot, [0u8; 32]
EmptySlot == [j \in 1..32 |-> 0]

\* attestation bytes of the guardian of slot i: two byte strings a call can
\* present for the slot, neither all zero
AttestationValues == {1, 2}

Attestation(i, v) == [j \in 1..32 |-> IF j = 32 THEN i ELSE IF j = 1 THEN v ELSE 0]

(* --------------------------- post_vaa.rs ------------------------------ *)
\* Keccak-256 as an ideal hash: the digest names the bytes hashed
Keccak256(bytes) == <<"keccak256", bytes>>

\* the body without the nonce
Body_NoNonce(vaa) ==
  write_u32_be(vaa.timestamp) \o <<vaa.emitter_chain>>
    \o vaa.emitter_address \o vaa.payload

\* the body check_integrity serializes
Body(vaa) ==
  write_u32_be(vaa.timestamp) \o write_u32_be(vaa.nonce) \o <<vaa.emitter_chain>>
    \o vaa.emitter_address \o vaa.payload

\* the body_hash check_integrity computes
body_hash(vaa) == Keccak256(Body(vaa))

check_active(guardian_set, unix_timestamp) ==
  IF guardian_set.expiration_time # 0 /\ guardian_set.expiration_time < unix_timestamp
    THEN "PostVAAGuardianSetExpired"
    ELSE Ok

\* check_valid_sigs comparing nothing
check_valid_sigs_NoCheck(guardian_set, sig_info) == Ok

check_valid_sigs(guardian_set, sig_info) ==
  IF sig_info.guardian_set_index # guardian_set.index
    THEN "PostVAAGuardianSetMismatch"
    ELSE Ok

\* computes body and body_hash and returns Ok(()) without comparing
check_integrity(sig_info, vaa) ==
  LET h == body_hash(vaa) IN Ok

\* slots holding a non-zero byte, counted as u8
signature_count(signatures) ==
  Cardinality({i \in DOMAIN signatures :
                 Cardinality({j \in DOMAIN signatures[i] : signatures[i][j] # 0}) # 0})
    % 256

\* the count with the last step written as len / 10 + 1
required_consensus_count_TwoThirds(n) ==
  (((((n % 65536) * 10) % 65536) \div 3) * 2) \div 10 + 1

\* u16 arithmetic of the block computing required_consensus_count
required_consensus_count(n) ==
  LET len0 == n % 65536
      len1 == ((len0 * 10) % 65536) \div 3
      len2 == (len1 * 2) % 65536
  IN  len2 \div (10 + 1)

\* if (signature_count as u16) < required_consensus_count
consensus_failed(count, n) == count < required_consensus_count(n)

transfer_sol(sender, recipient, amount) ==
  LET s == checked_sub(sender, amount)
      r == checked_add(recipient, amount)
  IN  IF ~s.some
        THEN [result |-> "InsufficientFunds", sender |-> sender, recipient |-> recipient]
        ELSE IF ~r.some
          THEN [result |-> "InvalidArgument", sender |-> s.val, recipient |-> recipient]
          ELSE [result |-> Ok, sender |-> s.val, recipient |-> r.val]

\* lines 30-85, the statements of the handler, on the accounts of ctx.  The
\* value is the result and the accounts as the handler leaves them.
post_vaa_stmts(ctx, vaa) ==
  LET unchanged == [message |-> ctx.message, claim |-> ctx.claim,
                    state_lamports |-> ctx.state_lamports,
                    payer_lamports |-> ctx.payer_lamports]
      message1 == [ctx.message EXCEPT !.vaa_version = vaa.version,
                                      !.vaa_time = vaa.timestamp,
                                      !.vaa_signature_account = ctx.sig_key]
      refund == U64Lt(U64(VAA_TX_FEE),
                      unwrap_or(checked_sub(ctx.state_lamports, U64(MIN_BRIDGE_BALANCE)),
                                U64(0)))
      t == transfer_sol(ctx.state_lamports, ctx.payer_lamports, U64(VAA_TX_FEE))
      claim1 == [ctx.claim EXCEPT !.vaa_time = ctx.clock]
  IN  IF consensus_failed(signature_count(ctx.sig_info.signatures),
                          len_keys(ctx.guardian_set))
        THEN [result |-> "PostVAAConsensusFailed"] @@ unchanged
      ELSE IF refund /\ t.result # Ok
        THEN [result |-> t.result, message |-> message1, claim |-> ctx.claim,
              state_lamports |-> t.sender, payer_lamports |-> t.recipient]
      ELSE [result |-> Ok, message |-> message1, claim |-> claim1,
            state_lamports |-> IF refund THEN t.sender ELSE ctx.state_lamports,
            payer_lamports |-> IF refund THEN t.recipient ELSE ctx.payer_lamports]

\* The three stacked #[access_control(..)] attributes of lines 26-28, each
\* putting its call before the statements of the function it is handed.  The
\* outermost attribute is expanded first and the innermost last, so the
\* innermost call comes first: check_integrity, check_valid_sigs,
\* check_active.  The value is the results of the calls in the order they run.
access_control(ctx, vaa) ==
  <<check_integrity(ctx.sig_info, vaa),
    check_valid_sigs(ctx.guardian_set, ctx.sig_info),
    check_active(ctx.guardian_set, ctx.clock)>>

\* the ? after each call: the first Err returns
first_err(results) ==
  IF \E i \in DOMAIN results : results[i] # Ok
    THEN results[CHOOSE i \in DOMAIN results :
                   /\ results[i] # Ok
                   /\ \A j \in 1..(i - 1) : results[j] = Ok]
    ELSE Ok

\* the handler: the access_control calls, then the statements
post_vaa(ctx, vaa) ==
  LET checks == first_err(access_control(ctx, vaa)) IN
    IF checks # Ok
      THEN [result |-> checks, message |-> ctx.message, claim |-> ctx.claim,
            state_lamports |-> ctx.state_lamports,
            payer_lamports |-> ctx.payer_lamports]
      ELSE post_vaa_stmts(ctx, vaa)

\* Bridge::post_vaa with the PostVAA accounts taken as accounts that are all
\* loaded from the ledger and all stored after the handler
Bridge_post_vaa_Mut(accounts, data) ==
  LET ctx == [guardian_set |-> IF accounts.guardian_set = NoAccount
                                 THEN ZeroGuardianSetInfo
                                 ELSE accounts.guardian_set,
              clock |-> accounts.clock,
              sig_info |-> accounts.sig_info, sig_key |-> accounts.sig_key,
              message |-> accounts.message, claim |-> accounts.claim,
              state_lamports |-> accounts.state_lamports,
              payer_lamports |-> accounts.payer_lamports]
      r == post_vaa(ctx, data)
  IN  [result |-> r.result, ran |-> TRUE,
       wrote |-> [message |-> r.message, claim |-> r.claim],
       guardian_set |-> ctx.guardian_set,
       message |-> r.message, claim |-> r.claim,
       state_lamports |-> r.state_lamports, payer_lamports |-> r.payer_lamports]

\* Bridge::post_vaa with the constraints of the PostVAA accounts:
\*   guardian_set is #[account(init, associated = state)]: the account is
\*     created for the call, so the handler gets a zeroed GuardianSetInfo,
\*     and the creation fails when the associated account exists;
\*   message and claim carry no mut: what the handler assigns to them is
\*     not written back to the accounts;
\*   transfer_sol writes the lamports of state and payer in place.
\* `ran` tells whether the handler was reached, `wrote` what it assigned to
\* message and claim; the other fields are the accounts after the call.
Bridge_post_vaa(accounts, data) ==
  LET ctx == [guardian_set |-> ZeroGuardianSetInfo, clock |-> accounts.clock,
              sig_info |-> accounts.sig_info, sig_key |-> accounts.sig_key,
              message |-> accounts.message, claim |-> accounts.claim,
              state_lamports |-> accounts.state_lamports,
              payer_lamports |-> accounts.payer_lamports]
      r == post_vaa(ctx, data)
  IN  IF accounts.guardian_set # NoAccount
        THEN [result |-> "AccountAlreadyInUse", ran |-> FALSE,
              wrote |-> [message |-> accounts.message, claim |-> accounts.claim],
              guardian_set |-> accounts.guardian_set,
              message |-> accounts.message, claim |-> accounts.claim,
              state_lamports |-> accounts.state_lamports,
              payer_lamports |-> accounts.payer_lamports]
        ELSE [result |-> r.result, ran |-> TRUE,
              wrote |-> [message |-> r.message, claim |-> r.claim],
              guardian_set |-> ZeroGuardianSetInfo,
              message |-> accounts.message, claim |-> accounts.claim,
              state_lamports |-> r.state_lamports,
              payer_lamports |-> r.payer_lamports]

(* ------------------------ publish_message.rs -------------------------- *)
\* the bincode encoding of SystemInstruction::Transfer { lamports }
TransferData(lamports) == <<2, 0, 0, 0>> \o to_le_bytes(lamports)

\* instructions is [current |-> index of the running instruction,
\*                  ixs |-> the instructions of the transaction]
check_fees(instructions, bridge_key, fee) ==
  LET current_instruction == instructions.current
      transfer_ix_index == (current_instruction - 1) % 256
      transfer_ix == instructions.ixs[transfer_ix_index + 1]
  IN  IF current_instruction = 0 THEN "InvalidInstructionData"
      ELSE IF transfer_ix_index + 1 \notin DOMAIN instructions.ixs THEN "InvalidAccountData"
      ELSE IF transfer_ix.program_id # SYSTEM_PROGRAM_ID THEN "InvalidArgument"
      ELSE IF Len(transfer_ix.accounts) # 2 THEN "InvalidInstructionData"
      ELSE IF transfer_ix.accounts[2] # bridge_key THEN "InvalidArgument"
      ELSE IF Len(transfer_ix.data) # 12 THEN "InvalidAccountData"
      ELSE IF SubSeq(transfer_ix.data, 1, 4) # <<2, 0, 0, 0>> THEN "InvalidInstructionData"
      ELSE IF U64Lt(from_le_bytes(SubSeq(transfer_ix.data, 5, 12)), U64(fee))
        THEN "InsufficientFees"
      ELSE Ok

\* bytes of the borsh encoding of a PostedMessage: vaa_version, vaa_time,
\* vaa_signature_account, submission_time, nonce, emitter_chain (one byte),
\* emitter_address, and payload as a u32 length and the bytes
serialized_len(message) == 1 + 4 + 32 + 4 + 4 + 1 + 32 + 4 + Len(message.payload)

\* line 35: 8 bytes of discriminator and the encoding of PostedMessage::default()
message_space == 8 + serialized_len(DefaultPostedMessage)

\* ctx.accounts.rent.minimum_balance(space) of the default rent
minimum_balance(space) ==
  ((ACCOUNT_STORAGE_OVERHEAD + space) * DEFAULT_LAMPORTS_PER_BYTE_YEAR)
     * DEFAULT_EXEMPTION_THRESHOLD

\* The answer of the runtime to invoke_signed of create_account(payer,
\* message, lamports, space, program_id), lines 37-63.  The instruction names
\* payer and message, the account infos handed over are emitter and
\* system_program: `resolves` is FALSE for a runtime that looks for the
\* instruction's accounts among the account infos and refuses the call.
\* Otherwise the system program refuses an address in use and a payer that
\* holds less than lamports, and moves lamports to the new account.
invoke_signed_create_account(resolves, payer_lamports, account, lamports) ==
  LET left == checked_sub(payer_lamports, lamports) IN
    IF ~resolves
      THEN [result |-> "MissingAccount", payer_lamports |-> payer_lamports]
    ELSE IF account # NoAccount
      THEN [result |-> "AccountAlreadyInUse", payer_lamports |-> payer_lamports]
    ELSE IF ~left.some
      THEN [result |-> "ResultWithNegativeLamports", payer_lamports |-> payer_lamports]
    ELSE [result |-> Ok, payer_lamports |-> left.val]

\* message.exit(program_id), line 77: the discriminator and the message are
\* serialized into the data of the account, which holds `space` bytes
message_exit(message, space) ==
  IF 8 + serialized_len(message) > space THEN "InvalidAccountData" ELSE Ok

\* publish_message creating the account whether or not the address is free
publish_message_Overwrite(ctx, message_nonce, payload) ==
  LET fees == check_fees(ctx.instructions, BRIDGE_STATE, calculate_transfer_fee)
      space == message_space
      lamports == U64(minimum_balance(space))
      cpi == invoke_signed_create_account(ctx.cpi_resolves, ctx.payer_lamports,
                                          NoAccount, lamports)
      message == [DefaultPostedMessage EXCEPT
                    !.submission_time = ctx.clock,
                    !.emitter_chain = "Solana",
                    !.emitter_address = ctx.emitter,
                    !.nonce = message_nonce,
                    !.payload = payload]
      exit == message_exit(message, space)
      err(result, fees_result) ==
        [result |-> result, fees |-> fees_result, account |-> ctx.account,
         account_lamports |-> ctx.account_lamports,
         payer_lamports |-> ctx.payer_lamports]
  IN  IF ~ctx.instructions.is_sysvar THEN err("InvalidSysVar", "not run")
      ELSE IF fees # Ok THEN err(fees, fees)
      ELSE IF cpi.result # Ok THEN err(cpi.result, Ok)
      ELSE [result |-> exit, fees |-> Ok,
            account |-> IF exit = Ok THEN message ELSE DefaultPostedMessage,
            account_lamports |-> lamports,
            payer_lamports |-> cpi.payer_lamports]

\* Bridge::publish_message and api::publish_message.  ctx.account is the
\* message account (NoAccount when the derived address is free),
\* ctx.payer_lamports the lamports of the payer, ctx.cpi_resolves the runtime
\* of invoke_signed.  The value is the result, the result of check_fees
\* ("not run" when it was not reached) and the accounts as the handler
\* leaves them.
publish_message(ctx, message_nonce, payload) ==
  LET fees == check_fees(ctx.instructions, BRIDGE_STATE, calculate_transfer_fee)
      space == message_space
      lamports == U64(minimum_balance(space))
      cpi == invoke_signed_create_account(ctx.cpi_resolves, ctx.payer_lamports,
                                          ctx.account, lamports)
      message == [DefaultPostedMessage EXCEPT
                    !.submission_time = ctx.clock,
                    !.emitter_chain = "Solana",
                    !.emitter_address = ctx.emitter,
                    !.nonce = message_nonce,
                    !.payload = payload]
      exit == message_exit(message, space)
      err(result, fees_result) ==
        [result |-> result, fees |-> fees_result, account |-> ctx.account,
         account_lamports |-> ctx.account_lamports,
         payer_lamports |-> ctx.payer_lamports]
  IN  IF ~ctx.instructions.is_sysvar THEN err("InvalidSysVar", "not run")
      ELSE IF fees # Ok THEN err(fees, fees)
      ELSE IF cpi.result # Ok THEN err(cpi.result, Ok)
      ELSE [result |-> exit, fees |-> Ok,
            account |-> IF exit = Ok THEN message ELSE DefaultPostedMessage,
            account_lamports |-> lamports,
            payer_lamports |-> cpi.payer_lamports]

(* --------------------------- initialize.rs ---------------------------- *)
\* check_keys accepting any number of keys
check_keys_NoCheck(keys) == Ok

check_keys(keys) ==
  IF Len(keys) > MAX_LEN_GUARDIAN_KEYS THEN "InvalidInstructionData" ELSE Ok

\* Bridge::new: the guardian set account (freshly created, zeroed) and the
\* Bridge state it returns
initialize(ctx, initial_guardian_keys, config) ==
  IF check_keys(initial_guardian_keys) # Ok
    THEN [result |-> check_keys(initial_guardian_keys),
          guardian_set |-> NoAccount, bridge |-> NoAccount]
    ELSE [result |-> Ok,
          guardian_set |-> [ZeroGuardianSetInfo EXCEPT
                              !.index = 0,
                              !.creation_time = ctx.clock,
                              !.keys = initial_guardian_keys],
          bridge |-> [guardian_set_index |-> 0, config |-> config]]

(* ------------------------- guardian_update.rs ------------------------- *)
\* a guardian_update that moves the bridge to the next guardian set index
guardian_update_Rotate(bridge, data) ==
  [result |-> Ok,
   bridge |-> [bridge EXCEPT !.guardian_set_index = bridge.guardian_set_index + 1]]

guardian_update(bridge, data) == [result |-> Ok, bridge |-> bridge]

(* ------------------------- verify_signatures -------------------------- *)
\* A new Signatures account for (hash, guardian_set_index), its slots empty
NewSignatures(hash, guardian_set_index) ==
  [signatures |-> [i \in 1..SigSlots |-> EmptySlot],
   hash |-> hash, guardian_set_index |-> guardian_set_index]

\* attest writing this call's slots over the account's: the slots the call
\* does not name are emptied
verify_signatures_Replace(account, hash, guardian_set_index, signers, initial_creation) ==
  LET base == NewSignatures(hash, guardian_set_index)
      replaced == [base EXCEPT !.signatures =
                     [i \in DOMAIN base.signatures |->
                        IF i \in DOMAIN signers
                          THEN Attestation(i, signers[i])
                          ELSE EmptySlot]]
  IN  IF initial_creation /\ account # NoAccount
        THEN [result |-> "AlreadyExists", account |-> account]
        ELSE [result |-> Ok, account |-> replaced]

\* attest merging into an existing account whatever initial_creation says
verify_signatures_NoFresh(account, hash, guardian_set_index, signers, initial_creation) ==
  LET base == IF account = NoAccount
                THEN NewSignatures(hash, guardian_set_index)
                ELSE account
  IN  [result |-> Ok,
       account |-> [base EXCEPT !.signatures =
                      [i \in DOMAIN base.signatures |->
                         IF i \in DOMAIN signers
                           THEN Attestation(i, signers[i])
                           ELSE base.signatures[i]]]]

\* attest: `account` is the Signatures account of the pair (NoAccount when
\* there is none), `signers` the signer_slot_map of the call, from the slots
\* attested to the attestation presented for each.  With initial_creation
\* on an existing account the call fails; otherwise the slots of the map
\* are merged into the account: a slot the map names takes the attestation
\* presented, a slot it does not name stays as it is.
verify_signatures(account, hash, guardian_set_index, signers, initial_creation) ==
  LET base == IF account = NoAccount
                THEN NewSignatures(hash, guardian_set_index)
                ELSE account
      merged == [base EXCEPT !.signatures =
                   [i \in DOMAIN base.signatures |->
                      IF i \in DOMAIN signers
                        THEN Attestation(i, signers[i])
                        ELSE base.signatures[i]]]
  IN  IF initial_creation /\ account # NoAccount
        THEN [result |-> "AlreadyExists", account |-> account]
        ELSE [result |-> Ok, account |-> merged]

\* Bridge::verify_signatures: the check of the instructions sysvar account,
\* then api::verify_signatures with the fields of VerifySigsData
Bridge_verify_signatures(ctx, data) ==
  IF ~ctx.instruction_is_sysvar
    THEN [result |-> "InvalidSysVar", account |-> ctx.account]
    ELSE verify_signatures(ctx.account, data.hash, ctx.guardian_set_index,
                           data.signers, data.initial_creation)

(* -------------------- ee-vaa-program instruction.rs ------------------- *)
\* b"WHEV"
EE_VAA_MAGIC == <<87, 72, 69, 86>>

\* InstructionKind::PostEEVAA as u8
InstructionKind_PostEEVAA == 1

\* largest u16
U16_MAX == 65535

\* WriteBytesExt::write_u16::<BigEndian>
write_u16_be(x) == <<(x \div 256) % 256, x % 256>>

\* ReadBytesExt::read_u16::<BigEndian> of the two bytes b
read_u16_be(b) == b[1] * 256 + b[2]

\* EEVAA::serialize writing the length little-endian
EEVAA_serialize_LittleEndian(ee_vaa) ==
  IF Len(ee_vaa.payload) > U16_MAX
    THEN [result |-> "Could not write payload len", buf |-> <<>>]
    ELSE [result |-> Ok,
          buf |-> <<Len(ee_vaa.payload) % 256, (Len(ee_vaa.payload) \div 256) % 256>>
                    \o ee_vaa.payload]

\* EEVAA::serialize: the length as u16 (try_into fails above U16_MAX), then
\* the payload
EEVAA_serialize(ee_vaa) ==
  IF Len(ee_vaa.payload) > U16_MAX
    THEN [result |-> "Could not write payload len", buf |-> <<>>]
    ELSE [result |-> Ok, buf |-> write_u16_be(Len(ee_vaa.payload)) \o ee_vaa.payload]

\* EEVAA::deserialize_from_reader on the bytes r the reader has left
EEVAA_deserialize_from_reader(r) ==
  IF Len(r) < 2
    THEN [result |-> "UnexpectedEndOfBuffer"]
    ELSE LET payload_len == read_u16_be(SubSeq(r, 1, 2)) IN
           IF Len(r) - 2 < payload_len
             THEN [result |-> "UnexpectedEndOfBuffer"]
             ELSE [result |-> Ok, value |-> [payload |-> SubSeq(r, 3, 2 + payload_len)]]

\* EEVAA::deserialize
EEVAA_deserialize(bytes) == EEVAA_deserialize_from_reader(bytes)

\* Instruction::PostEEVAA(ee_vaa)
PostEEVAA(ee_vaa) == [kind |-> "PostEEVAA", ee_vaa |-> ee_vaa]

\* Instruction::serialize
Instruction_serialize(i) ==
  LET inner == EEVAA_serialize(i.ee_vaa) IN
    IF inner.result # Ok
      THEN inner
      ELSE [result |-> Ok,
            buf |-> EE_VAA_MAGIC \o <<InstructionKind_PostEEVAA>> \o inner.buf]

\* Instruction::deserialize_from_reader on the bytes r
Instruction_deserialize_from_reader(r) ==
  IF Len(r) < Len(EE_VAA_MAGIC)
    THEN [result |-> "UnexpectedEndOfBuffer"]
    ELSE IF SubSeq(r, 1, Len(EE_VAA_MAGIC)) # EE_VAA_MAGIC
      THEN [result |-> "InvalidMagic"]
    ELSE IF Len(r) < Len(EE_VAA_MAGIC) + 1
      THEN [result |-> "UnexpectedEndOfBuffer"]
    ELSE IF r[Len(EE_VAA_MAGIC) + 1] # InstructionKind_PostEEVAA
      THEN [result |-> "InvalidInstructionKind"]
    ELSE LET inner == EEVAA_deserialize_from_reader(
                        SubSeq(r, Len(EE_VAA_MAGIC) + 2, Len(r)))
         IN  IF inner.result # Ok
               THEN inner
               ELSE [result |-> Ok, value |-> PostEEVAA(inner.value)]

\* Instruction::deserialize
Instruction_deserialize(buf) == Instruction_deserialize_from_reader(buf)

(* ------------------------------ inputs -------------------------------- *)
\* the PostVAAData submitted to post_vaa with timestamp t
VAA(t) ==
  [version |-> 1, guardian_set_index |-> 0, timestamp |-> t, nonce |-> 7,
   emitter_chain |-> 1, emitter_address |-> EMITTER, payload |-> <<104, 105>>]

\* the timestamps of the bodies submitted
VaaTimes == {0, 1}

\* the hash guardians sign for the body of timestamp t
HashOf(t) == body_hash(VAA(t))

\* guardian_set_index values a Signatures account is created for
Epochs == {0, 1}

\* the address of the Signatures account of (HashOf(t), guardian_set_index)
SigKeys == VaaTimes \X Epochs

\* the address of the message account of (emitter, nonce seed): the
\* emitter's key byte and the seed
MsgAccts == {<<69, 0>>}

ClaimAccts == {"claim"}

\* the slots attested in one verify_signatures: none, the first, all
SignerSets == {{}, {1}, 1..SigSlots}

\* the signer_slot_map of one verify_signatures over those slots
SignerMaps == {[i \in S |-> 1] : S \in SignerSets}

\* every signer_slot_map: each set of slots with each choice of attestations
AllSignerMaps == UNION {[S -> AttestationValues] : S \in SUBSET (1..SigSlots)}

\* the guardian keys handed to initialize
KeyList(n) == [i \in 1..n |-> GuardianKey(i)]

KeyLists == {KeyList(GuardianKeys), KeyList(MAX_LEN_GUARDIAN_KEYS + 1)}

\* with the largest list check_keys accepts
BoundaryKeyLists == KeyLists \cup {KeyList(MAX_LEN_GUARDIAN_KEYS)}

\* the instruction bundled before publish_message
Ix(program_id, accounts, data) ==
  [program_id |-> program_id, accounts |-> accounts, data |-> data]

PublishIx == Ix(Key(7), <<>>, <<>>)

\* an instruction of another program, no accounts and no data
Filler == Ix(OTHER_PROGRAM, <<>>, <<>>)

Batch(is_sysvar, prev) ==
  [is_sysvar |-> is_sysvar, current |-> Len(prev), ixs |-> prev \o <<PublishIx>>]

FeeAccounts == <<OTHER_ACCOUNT, BRIDGE_STATE>>

Batches ==
  << Batch(TRUE, <<Ix(SYSTEM_PROGRAM_ID, FeeAccounts,
                      TransferData(U64(calculate_transfer_fee)))>>),
     Batch(TRUE, <<>>),
     Batch(TRUE, <<Ix(SYSTEM_PROGRAM_ID, FeeAccounts,
                      TransferData(U64(calculate_transfer_fee - 1)))>>),
     Batch(TRUE, <<Ix(OTHER_PROGRAM, FeeAccounts,
                      TransferData(U64(calculate_transfer_fee)))>>),
     Batch(TRUE, <<Ix(SYSTEM_PROGRAM_ID, <<OTHER_ACCOUNT, BRIDGE_STATE, OTHER_ACCOUNT>>,
                      TransferData(U64(calculate_transfer_fee)))>>),
     Batch(TRUE, <<Ix(SYSTEM_PROGRAM_ID, <<BRIDGE_STATE, OTHER_ACCOUNT>>,
                      TransferData(U64(calculate_transfer_fee)))>>),
     Batch(TRUE, <<Ix(SYSTEM_PROGRAM_ID, FeeAccounts,
                      TransferData(U64(calculate_transfer_fee)) \o <<0>>)>>),
     Batch(TRUE, <<Ix(SYSTEM_PROGRAM_ID, FeeAccounts,
                      <<3, 0, 0, 0>> \o to_le_bytes(U64(calculate_transfer_fee)))>>),
     Batch(TRUE, <<Ix(SYSTEM_PROGRAM_ID, FeeAccounts, TransferData(U64_MAX))>>),
     Batch(FALSE, <<Ix(SYSTEM_PROGRAM_ID, FeeAccounts,
                       TransferData(U64(calculate_transfer_fee)))>>),
     Batch(TRUE, <<Ix(SYSTEM_PROGRAM_ID, FeeAccounts,
                      TransferData(U64(calculate_transfer_fee)))>>
                   \o [i \in 1..256 |-> Filler]) >>

\* the batches publish_message runs in: fee paid, no instruction before it
PublishBatches == {1, 2}

\* the payload b"hi"
ShortPayload == <<104, 105>>

\* the payloads of the messages published: none and b"hi"
PublishPayloads == {<<>>, ShortPayload}

\* a payload of n bytes
PayloadOfLen(n) == [i \in 1..n |-> 0]

\* with one byte, and with MAX_PAYLOAD_SIZE and MAX_PAYLOAD_SIZE + 1 bytes
Payloads == PublishPayloads
              \cup {PayloadOfLen(1), PayloadOfLen(MAX_PAYLOAD_SIZE),
                    PayloadOfLen(MAX_PAYLOAD_SIZE + 1)}

(* ------------------------------ state --------------------------------- *)
VARIABLES
  clock,              \* the clock sysvar's unix_timestamp
  bridge,             \* the Bridge state account, NoAccount before Bridge::new
  guardian_set,       \* the GuardianSetInfo account of Initialize
  vaa_guardian_set,   \* the GuardianSetInfo account of PostVAA, associated
                      \* with the Bridge state
  messages,           \* the PostedMessage accounts
  message_lamports,   \* their lamports
  sigs,               \* the Signatures accounts
  claims,             \* the ClaimedVAA accounts
  state_lamports,     \* lamports of the Bridge state account
  payer_lamports,     \* lamports of the payer of post_vaa
  publisher_lamports, \* lamports of the payer of publish_message
  last,               \* the last call: its handler, arguments and result
  ghost               \* history: t of the hashes HashOf(t) posted, messages
                      \* and claims named in a successful post_vaa

\* everything but the record of the last call
ledger == <<clock, bridge, guardian_set, vaa_guardian_set, messages,
            message_lamports, sigs, claims, state_lamports, payer_lamports,
            publisher_lamports, ghost>>

vars == <<ledger, last>>

\* The program just deployed.  The payer of
\* publish_message holds the rent of one message account.
Init ==
  /\ clock = 0
  /\ bridge = NoAccount
  /\ guardian_set = NoAccount
  /\ vaa_guardian_set = NoAccount
  /\ messages = [m \in MsgAccts |-> NoAccount]
  /\ message_lamports = [m \in MsgAccts |-> U64(0)]
  /\ sigs = [k \in SigKeys |-> NoAccount]
  /\ claims = [c \in ClaimAccts |-> DefaultClaimedVAA]
  /\ state_lamports \in {U64(MIN_BRIDGE_BALANCE + VAA_TX_FEE),
                         U64(MIN_BRIDGE_BALANCE + VAA_TX_FEE + 1)}
  /\ payer_lamports \in {U64(0), U64_MAX}
  /\ publisher_lamports = U64(minimum_balance(message_space))
  /\ last = [op |-> "init", result |-> Ok]
  /\ ghost = [posted |-> {}, finalized |-> {}, claimed |-> {}]

(* ------------------------------ actions ------------------------------- *)
Tick ==
  /\ clock < MaxTime
  /\ clock' = clock + 1
  /\ last' = [op |-> "tick", result |-> Ok]
  /\ UNCHANGED <<bridge, guardian_set, vaa_guardian_set, messages,
                 message_lamports, sigs, claims, state_lamports, payer_lamports,
                 publisher_lamports, ghost>>

\* Bridge::new with one of the key lists
InitializeWith(lists) ==
  \E keys \in lists :
    LET r == initialize([clock |-> clock], keys, "config") IN
      /\ bridge = NoAccount
      /\ guardian_set = NoAccount
      /\ bridge' = Commit(r.result, bridge, r.bridge)
      /\ guardian_set' = Commit(r.result, guardian_set, r.guardian_set)
      /\ last' = [op |-> "initialize", result |-> r.result, keys |-> Len(keys)]
      /\ UNCHANGED <<clock, vaa_guardian_set, messages, message_lamports,
                     sigs, claims, state_lamports, payer_lamports,
                     publisher_lamports, ghost>>

Initialize == InitializeWith(KeyLists)

InitializeAny == InitializeWith(BoundaryKeyLists)

\* publish_message in one of the batches bs with one of the payloads ps, on
\* either runtime of invoke_signed
Publish(bs, ps) ==
  \E m \in MsgAccts, b \in bs, payload \in ps, resolves \in BOOLEAN :
    LET ctx == [instructions |-> Batches[b], clock |-> clock, emitter |-> Key(m[1]),
                account |-> messages[m], account_lamports |-> message_lamports[m],
                payer_lamports |-> publisher_lamports, cpi_resolves |-> resolves]
        r == publish_message(ctx, 7, payload)
    IN  /\ bridge # NoAccount
        /\ messages' = [messages EXCEPT ![m] = Commit(r.result, @, r.account)]
        /\ message_lamports' =
             [message_lamports EXCEPT ![m] = Commit(r.result, @, r.account_lamports)]
        /\ publisher_lamports' = Commit(r.result, publisher_lamports, r.payer_lamports)
        /\ last' = [op |-> "publish_message", result |-> r.result, fees |-> r.fees,
                    message |-> m, batch |-> b, payload_len |-> Len(payload),
                    existed |-> messages[m] # NoAccount, resolves |-> resolves]
        /\ UNCHANGED <<clock, bridge, guardian_set, vaa_guardian_set, sigs,
                       claims, state_lamports, payer_lamports, ghost>>

PublishMessage == Publish(PublishBatches, PublishPayloads)

\* publish_message in every batch, with every payload
PublishAny == Publish(DOMAIN Batches, Payloads)

VerifySignatures ==
  \E k \in SigKeys, signers \in SignerMaps, initial_creation \in BOOLEAN :
    LET ctx == [instruction_is_sysvar |-> TRUE, account |-> sigs[k],
                guardian_set_index |-> k[2]]
        data == [hash |-> HashOf(k[1]), signers |-> signers,
                 initial_creation |-> initial_creation]
        r == Bridge_verify_signatures(ctx, data)
    IN
      /\ guardian_set # NoAccount
      /\ \A j \in SigKeys \ {k} : sigs[j] = NoAccount
      /\ sigs' = [sigs EXCEPT ![k] = Commit(r.result, @, r.account)]
      /\ last' = [op |-> "verify_signatures", result |-> r.result, sig |-> k,
                  initial_creation |-> initial_creation]
      /\ UNCHANGED <<clock, bridge, guardian_set, vaa_guardian_set, messages,
                     message_lamports, claims, state_lamports, payer_lamports,
                     publisher_lamports, ghost>>

\* Bridge::post_vaa on a published message, a Signatures account and a claim
\* account; `wrote` is what the handler assigned to message and claim
PostVAA ==
  \E m \in MsgAccts, c \in ClaimAccts, k \in SigKeys, t \in VaaTimes :
    /\ bridge # NoAccount
    /\ messages[m] # NoAccount
    /\ sigs[k] # NoAccount
    /\ LET accounts == [guardian_set |-> vaa_guardian_set, clock |-> clock,
                        sig_info |-> sigs[k], sig_key |-> k,
                        message |-> messages[m], claim |-> claims[c],
                        state_lamports |-> state_lamports,
                        payer_lamports |-> payer_lamports]
           r == Bridge_post_vaa(accounts, VAA(t))
       IN  /\ vaa_guardian_set' = Commit(r.result, vaa_guardian_set, r.guardian_set)
           /\ messages' = [messages EXCEPT ![m] = Commit(r.result, @, r.message)]
           /\ claims' = [claims EXCEPT ![c] = Commit(r.result, @, r.claim)]
           /\ state_lamports' = Commit(r.result, state_lamports, r.state_lamports)
           /\ payer_lamports' = Commit(r.result, payer_lamports, r.payer_lamports)
           /\ last' = [op |-> "post_vaa", result |-> r.result, ran |-> r.ran,
                       wrote |-> r.wrote, message |-> m,
                       claim |-> c, sig |-> k, timestamp |-> t,
                       replay |-> k[1] \in ghost.posted]
           /\ ghost' = IF r.result = Ok
                         THEN [posted |-> ghost.posted \cup {k[1]},
                               finalized |-> ghost.finalized \cup {m},
                               claimed |-> ghost.claimed \cup {c}]
                         ELSE ghost
    /\ UNCHANGED <<clock, bridge, guardian_set, sigs, message_lamports,
                   publisher_lamports>>

GuardianUpdate ==
  LET r == guardian_update(bridge, [dummy |-> 0]) IN
    /\ bridge # NoAccount
    /\ bridge' = Commit(r.result, bridge, r.bridge)
    /\ last' = [op |-> "guardian_update", result |-> r.result]
    /\ UNCHANGED <<clock, guardian_set, vaa_guardian_set, messages,
                   message_lamports, sigs, claims, state_lamports, payer_lamports,
                   publisher_lamports, ghost>>

Next ==
  \/ Tick
  \/ Initialize
  \/ PublishMessage
  \/ VerifySignatures
  \/ PostVAA
  \/ GuardianUpdate

Spec == Init /\ [][Next]_vars

(* ------------------- publication on its own --------------------------- *)
\* The bridge with publish_message as its only instruction after
\* initialization: initialize with every key list, publish_message in every
\* batch and with every payload.
PublishNext ==
  \/ Tick
  \/ InitializeAny
  \/ PublishAny

\* one balance of each account: publish_message reads none of them
PublishInit ==
  /\ Init
  /\ state_lamports = U64(MIN_BRIDGE_BALANCE + VAA_TX_FEE)
  /\ payer_lamports = U64(0)

SpecPublish == PublishInit /\ [][PublishNext]_vars

(* ------------------- signature sets on their own ---------------------- *)
\* number of present slots of a Signatures account, 0 when there is none
Present(account) ==
  IF account = NoAccount
    THEN 0
    ELSE Cardinality({i \in DOMAIN account.signatures :
                        account.signatures[i] # EmptySlot})

\* verify_signatures with either account handed in as the instructions
\* sysvar; recorded are the slots the call names, the attestations it
\* presents, the account before it and the account as the handler leaves it
Attest ==
  \E k \in SigKeys, signers \in AllSignerMaps, initial_creation \in BOOLEAN,
     is_sysvar \in BOOLEAN :
    LET ctx == [instruction_is_sysvar |-> is_sysvar, account |-> sigs[k],
                guardian_set_index |-> k[2]]
        data == [hash |-> HashOf(k[1]), signers |-> signers,
                 initial_creation |-> initial_creation]
        r == Bridge_verify_signatures(ctx, data)
    IN
      /\ guardian_set # NoAccount
      /\ \A j \in SigKeys \ {k} : sigs[j] = NoAccount
      /\ sigs' = [sigs EXCEPT ![k] = Commit(r.result, @, r.account)]
      /\ last' = [op |-> "verify_signatures", result |-> r.result, sig |-> k,
                  initial_creation |-> initial_creation, is_sysvar |-> is_sysvar,
                  signers |-> DOMAIN signers, attestations |-> signers,
                  existed |-> sigs[k] # NoAccount,
                  present_before |-> Present(sigs[k]),
                  before |-> sigs[k], left |-> r.account]
      /\ UNCHANGED <<clock, bridge, guardian_set, vaa_guardian_set, messages,
                     message_lamports, claims, state_lamports, payer_lamports,
                     publisher_lamports, ghost>>

AttestNext ==
  \/ Initialize
  \/ Attest

\* one balance of each account: verify_signatures reads none of them
AttestInit ==
  /\ Init
  /\ state_lamports = U64(MIN_BRIDGE_BALANCE + VAA_TX_FEE)
  /\ payer_lamports = U64(0)

SpecAttest == AttestInit /\ [][AttestNext]_vars

(* ------------------- the body hash on its own ------------------------- *)
\* timestamps differing in each byte of the u32
HashTimes == {0, 1, 7, 256, 65536, 16777216}

HashNonces == {0, 7, 263}

\* emitter addresses differing in the first and in the last byte
HashEmitters == {EMITTER, [EMITTER EXCEPT ![1] = 70], [EMITTER EXCEPT ![32] = 70]}

HashPayloads == {<<>>, <<104, 105>>, <<104, 106>>}

\* the PostVAAData bodies hashed
HashInputs ==
  {[version |-> 1, guardian_set_index |-> 0, timestamp |-> t, nonce |-> n,
    emitter_chain |-> 1, emitter_address |-> e, payload |-> p] :
     t \in HashTimes, n \in HashNonces, e \in HashEmitters, p \in HashPayloads}

\* the accounts of a bridge no instruction has run on
NoAccounts ==
  /\ clock = 0
  /\ bridge = NoAccount
  /\ guardian_set = NoAccount
  /\ vaa_guardian_set = NoAccount
  /\ messages = [m \in MsgAccts |-> NoAccount]
  /\ message_lamports = [m \in MsgAccts |-> U64(0)]
  /\ sigs = [k \in SigKeys |-> NoAccount]
  /\ claims = [c \in ClaimAccts |-> DefaultClaimedVAA]
  /\ state_lamports = U64(0)
  /\ payer_lamports = U64(0)
  /\ publisher_lamports = U64(0)
  /\ ghost = [posted |-> {}, finalized |-> {}, claimed |-> {}]

\* two bodies handed to check_integrity
HashInit ==
  /\ NoAccounts
  /\ \E a \in HashInputs, b \in HashInputs : last = [op |-> "hash_input", a |-> a, b |-> b]

\* the body and the body_hash check_integrity computes for each
HashPair ==
  /\ last.op = "hash_input"
  /\ last' = [op |-> "hashed", a |-> last.a, b |-> last.b,
              body_a |-> Body(last.a), body_b |-> Body(last.b),
              hash_a |-> body_hash(last.a), hash_b |-> body_hash(last.b)]
  /\ UNCHANGED ledger

HashNext == HashPair

SpecHash == HashInit /\ [][HashNext]_vars

(* ------------------- the EE-VAA envelope on its own ------------------- *)
\* byte strings over bytes of length at most n
BytesUpTo(bytes, n) == UNION {[1..k -> bytes] : k \in 0..n}

\* payloads: the short ones, and the lengths around the one-byte and the
\* two-byte limit of the length field
EnvelopePayloads ==
  BytesUpTo({0, 66, 255}, 3)
    \cup {PayloadOfLen(n) : n \in {255, 256, 257, U16_MAX, U16_MAX + 1}}

\* the instruction carrying the payload of the tests and one more byte
ValidBuffer == Instruction_serialize(PostEEVAA([payload |-> <<66, 0>>])).buf

\* buffers handed to Instruction::deserialize: the valid one cut short, with
\* one byte changed, and with a byte after its end
Buffers ==
  {SubSeq(ValidBuffer, 1, n) : n \in 0..Len(ValidBuffer)}
    \cup {[ValidBuffer EXCEPT ![i] = (@ + 1) % 256] : i \in 1..Len(ValidBuffer)}
    \cup {ValidBuffer \o <<0>>}

EnvelopeInit ==
  /\ NoAccounts
  /\ \/ \E p \in EnvelopePayloads : last = [op |-> "payload_input", payload |-> p]
     \/ \E b \in Buffers : last = [op |-> "buffer_input", buf |-> b]

\* test_serde_eevaa_basic on the payload
EEVAARoundTrip ==
  /\ last.op = "payload_input"
  /\ LET ser == EEVAA_serialize([payload |-> last.payload]) IN
       last' = [op |-> "eevaa", payload |-> last.payload, ser |-> ser,
                back |-> IF ser.result = Ok
                           THEN EEVAA_deserialize(ser.buf)
                           ELSE [result |-> "not serialized"]]
  /\ UNCHANGED ledger

\* test_serde_instruction_basic on the payload
InstructionRoundTrip ==
  /\ last.op = "payload_input"
  /\ LET ser == Instruction_serialize(PostEEVAA([payload |-> last.payload])) IN
       last' = [op |-> "instruction", payload |-> last.payload, ser |-> ser,
                back |-> IF ser.result = Ok
                           THEN Instruction_deserialize(ser.buf)
                           ELSE [result |-> "not serialized"]]
  /\ UNCHANGED ledger

\* Instruction::deserialize on a buffer
Decode ==
  /\ last.op = "buffer_input"
  /\ last' = [op |-> "decoded", buf |-> last.buf,
              back |-> Instruction_deserialize(last.buf)]
  /\ UNCHANGED ledger

EnvelopeNext ==
  \/ EEVAARoundTrip
  \/ InstructionRoundTrip
  \/ Decode

SpecEnvelope == EnvelopeInit /\ [][EnvelopeNext]_vars

(* ------------------- the quorum rule on its own ----------------------- *)
\* The quorum test of post_vaa applied to every guardian-set size and
\* signature count of a full-size set.
QuorumInit ==
  /\ clock = 0
  /\ bridge = NoAccount
  /\ guardian_set = NoAccount
  /\ vaa_guardian_set = NoAccount
  /\ messages = [m \in MsgAccts |-> NoAccount]
  /\ message_lamports = [m \in MsgAccts |-> U64(0)]
  /\ sigs = [k \in SigKeys |-> NoAccount]
  /\ claims = [c \in ClaimAccts |-> DefaultClaimedVAA]
  /\ state_lamports = U64(0)
  /\ payer_lamports = U64(0)
  /\ publisher_lamports = U64(0)
  /\ ghost = [posted |-> {}, finalized |-> {}, claimed |-> {}]
  /\ \E n \in 0..MAX_LEN_GUARDIAN_KEYS, count \in 0..MAX_LEN_GUARDIAN_KEYS :
       last = [op |-> "input", n |-> n, count |-> count]

QuorumCheck ==
  /\ last.op = "input"
  /\ last' = [op |-> "consensus", n |-> last.n, count |-> last.count,
              required |-> required_consensus_count(last.n),
              failed |-> consensus_failed(last.count, last.n)]
  /\ UNCHANGED ledger

QuorumNext == QuorumCheck

SpecQuorum == QuorumInit /\ [][QuorumNext]_vars

(* ------------------- the handler of post_vaa on its own --------------- *)
\* api::post_vaa applied to the contexts it can be handed: a guardian set
\* as initialize writes it, without and with an expiration_time, at every
\* time, with every Signatures account.

\* the guardian sets: GuardianKeys keys, expiration_time 0..MaxTime, len_keys
\* each of the values it can hold beside these keys
HandlerGuardianSets ==
  {[ZeroGuardianSetInfo EXCEPT !.keys = KeyList(GuardianKeys),
                               !.len_keys = l,
                               !.expiration_time = e] :
     e \in 0..MaxTime, l \in LenKeys(KeyList(GuardianKeys))}

\* the Signatures account of (HashOf(t), e) with the slots `present` filled
SignaturesOf(present, t, e) ==
  [signatures |-> [i \in 1..SigSlots |->
                     IF i \in present THEN Attestation(i, 1) ELSE EmptySlot],
   hash |-> HashOf(t), guardian_set_index |-> e]

\* a message as publish_message stores it
PublishedMessage ==
  [DefaultPostedMessage EXCEPT !.emitter_chain = "Solana",
                               !.emitter_address = EMITTER, !.nonce = 7]

HandlerInit ==
  /\ clock \in 0..MaxTime
  /\ bridge = NoAccount
  /\ guardian_set = NoAccount
  /\ vaa_guardian_set = NoAccount
  /\ messages = [m \in MsgAccts |-> NoAccount]
  /\ message_lamports = [m \in MsgAccts |-> U64(0)]
  /\ sigs = [k \in SigKeys |-> NoAccount]
  /\ claims = [c \in ClaimAccts |-> DefaultClaimedVAA]
  /\ state_lamports \in {U64(MIN_BRIDGE_BALANCE + VAA_TX_FEE),
                         U64(MIN_BRIDGE_BALANCE + VAA_TX_FEE + 1)}
  /\ payer_lamports \in {U64(0), U64_MAX}
  /\ publisher_lamports = U64(0)
  /\ ghost = [posted |-> {}, finalized |-> {}, claimed |-> {}]
  /\ \E g \in HandlerGuardianSets, present \in SUBSET (1..SigSlots),
        k \in SigKeys, t \in VaaTimes :
       last = [op |-> "context", guardian_set |-> g, sig |-> k,
               sig_info |-> SignaturesOf(present, k[1], k[2]), timestamp |-> t]

\* the handler on the context; message, claim and the lamports are recorded
\* as the handler leaves them
HandlePostVAA ==
  /\ last.op = "context"
  /\ LET ctx == [guardian_set |-> last.guardian_set, clock |-> clock,
                 sig_info |-> last.sig_info, sig_key |-> last.sig,
                 message |-> PublishedMessage, claim |-> DefaultClaimedVAA,
                 state_lamports |-> state_lamports,
                 payer_lamports |-> payer_lamports]
         r == post_vaa(ctx, VAA(last.timestamp))
     IN  last' = [op |-> "handled", guardian_set |-> last.guardian_set,
                  sig |-> last.sig, sig_info |-> last.sig_info,
                  timestamp |-> last.timestamp, result |-> r.result,
                  message |-> r.message, claim |-> r.claim,
                  state_lamports |-> r.state_lamports,
                  payer_lamports |-> r.payer_lamports]
  /\ UNCHANGED ledger

HandlerNext == HandlePostVAA

SpecHandler == HandlerInit /\ [][HandlerNext]_vars

\* the handler has run on the context
Handled == last.op = "handled"

\* is_active of the specification: expires_at = 0 or now < expires_at
HandledActive ==
  last.guardian_set.expiration_time = 0 \/ clock < last.guardian_set.expiration_time

HandledEpochMatch == last.sig_info.guardian_set_index = last.guardian_set.index

HandledHashMatch == body_hash(VAA(last.timestamp)) = last.sig_info.hash

\* present slots of the signature set
HandledPresent == Present(last.sig_info)

\* the threshold of the specification: that of the size of the guardian set
HandledThreshold == required_consensus_count(Len(last.guardian_set.keys))

(* ------------------------- the last post_vaa -------------------------- *)
LastPost == last.op = "post_vaa"

\* the guardian set the handler was handed is the zeroed one of the new account
LastEpochMatch == sigs[last.sig].guardian_set_index = ZeroGuardianSetInfo.index

LastHashMatch == body_hash(VAA(last.timestamp)) = sigs[last.sig].hash

\* present slots of the signature set consumed
LastPresent == Present(sigs[last.sig])

LastThreshold == required_consensus_count(Len(ZeroGuardianSetInfo.keys))

(* ------------------------------ claims -------------------------------- *)
\* C1: post_vaa never succeeds when the hash recomputed from the submitted
\* body (timestamp, nonce, emitter_chain, emitter_address, payload) differs
\* from the signature set's hash: the call fails and finalizes nothing.
C1_IntegrityRejects ==
  (LastPost /\ last.ran /\ ~LastHashMatch) => last.result # Ok

\* C2: once a post_vaa has succeeded for a hash, no later post_vaa for that
\* hash succeeds, and one with otherwise valid inputs fails with AlreadyClaimed.
C2_ReplayRejected ==
  (LastPost /\ last.replay) =>
     /\ last.result # Ok
     /\ (LastEpochMatch /\ LastHashMatch /\ LastPresent >= LastThreshold)
          => last.result = "AlreadyClaimed"

C4_ThresholdTable ==
  last.op = "consensus" =>
     /\ last.required = (((last.n * 10) \div 3) * 2) \div 11
     /\ last.n = 1 => last.required = 0
     /\ last.n = 3 => last.required = 1
     /\ last.n = 19 => last.required = 11
     /\ last.n = 20 => last.required = 12

C4_Witness == last.op = "consensus" /\ last.n = 19 /\ last.required = 11

\* C5: every signature count that passes the quorum test is at least two
\* thirds of the guardian set: 3 * present >= 2 * n.
C5_TwoThirdsMajority ==
  (last.op = "consensus" /\ ~last.failed) => 3 * last.count >= 2 * last.n

\* C6: expiry includes the expiration instant: with expiration_time = T # 0
\* post_vaa at now = T fails with the expired error, at now = T - 1 it passes
\* the liveness check, and a set with expiration_time = 0 always passes it.
C6_ExpiryInclusive ==
  Handled =>
     /\ (last.guardian_set.expiration_time # 0
           /\ clock = last.guardian_set.expiration_time)
          => last.result = "PostVAAGuardianSetExpired"
     /\ (last.guardian_set.expiration_time # 0
           /\ clock = last.guardian_set.expiration_time - 1)
          => last.result # "PostVAAGuardianSetExpired"
     /\ last.guardian_set.expiration_time = 0
          => last.result # "PostVAAGuardianSetExpired"

\* C7: a post_vaa whose signature set carries another guardian_set_index than
\* the guardian set handed to the call fails with the mismatch error, so no
\* post_vaa finalizes a message on a signature set of another epoch.
C7_EpochBinding ==
  (Handled /\ ~HandledEpochMatch) =>
     /\ last.result = "PostVAAGuardianSetMismatch"
     /\ last.message = PublishedMessage
     /\ last.claim = DefaultClaimedVAA

\* only the epoch is wrong: the set is active, the hash is the body's and
\* every slot is present
C7_Witness ==
  Handled /\ ~HandledEpochMatch /\ HandledActive /\ HandledHashMatch
    /\ HandledPresent = SigSlots /\ last.result = "PostVAAGuardianSetMismatch"

C9_FinalizedTerminal ==
  [][\A m \in ghost.finalized :
        /\ messages'[m].vaa_version = messages[m].vaa_version
        /\ messages'[m].vaa_time = messages[m].vaa_time
        /\ messages'[m].vaa_signature_account = messages[m].vaa_signature_account]_vars

\* a later post_vaa on the message, with the body of another hash
C9_Witness ==
  LastPost /\ last.message \in ghost.finalized /\ last.result # Ok
    /\ last.timestamp \notin ghost.posted

\* C10: once a claim has been named in a successful post_vaa, no later
\* operation changes its hash or its vaa_time or removes it.
C10_ClaimTerminal ==
  [][\A c \in ghost.claimed : claims'[c] = claims[c]]_vars

\* a later post_vaa naming the claim, at a later time
C10_Witness ==
  LastPost /\ last.claim \in ghost.claimed /\ last.result # Ok /\ clock > 0
    /\ claims[last.claim] # NoAccount

(* ----------------------- the last publish_message -------------------- *)
LastPublish == last.op = "publish_message"

\* the errors of check_fees
FeeErrors ==
  {"InvalidInstructionData", "InvalidAccountData", "InvalidArgument", "InsufficientFees"}

\* no instruction precedes publish_message in batch b
PrevMissing(b) == Batches[b].current = 0

\* the instruction bundled immediately before publish_message in batch b
PrevIx(b) == Batches[b].ixs[Batches[b].current]

\* the instruction before publish_message is no transfer of at least the fee
\* to the bridge state account
PrevNotFee(b) ==
  \/ PrevIx(b).program_id # SYSTEM_PROGRAM_ID
  \/ Len(PrevIx(b).accounts) # 2
  \/ PrevIx(b).accounts[2] # BRIDGE_STATE
  \/ Len(PrevIx(b).data) # 12
  \/ SubSeq(PrevIx(b).data, 1, 4) # <<2, 0, 0, 0>>
  \/ U64Lt(from_le_bytes(SubSeq(PrevIx(b).data, 5, 12)), U64(calculate_transfer_fee))

\* C11: publish_message fails with an error of the fee check and creates no
\* message when the instruction immediately before it is missing, is not a
\* system transfer (program, two accounts, tag 2), does not pay the bridge
\* state account, is not 12 bytes long or pays less than the fee; a transfer
\* of exactly the fee passes the fee check.
C11_FeeEvidence ==
  (LastPublish /\ Batches[last.batch].is_sysvar) =>
     /\ (PrevMissing(last.batch) \/ PrevNotFee(last.batch)) =>
           /\ last.fees \in FeeErrors
           /\ last.result = last.fees
           /\ ~last.existed => messages[last.message] = NoAccount
     /\ last.batch = 1 => last.fees = Ok

\* the error of a check of the payload against MAX_PAYLOAD_SIZE
PayloadTooLarge == "PayloadTooLarge"

\* C12: a publish_message with a payload longer than MAX_PAYLOAD_SIZE, the
\* fee paid and the address free, fails with the error of the payload bound
\* and every stored message has a payload of at most MAX_PAYLOAD_SIZE bytes.
C12_PayloadBound ==
  /\ (LastPublish /\ last.payload_len > MAX_PAYLOAD_SIZE /\ last.fees = Ok
         /\ ~last.existed /\ last.resolves) =>
        last.result = PayloadTooLarge
  /\ \A m \in MsgAccts :
        messages[m] # NoAccount => Len(messages[m].payload) <= MAX_PAYLOAD_SIZE

\* C13: a publish_message for an (emitter, nonce seed) pair whose message
\* account exists fails, at the creation of the account when the fee was
\* paid, and leaves the message as it was.
C13_PublishOnce ==
  [][(last'.op = "publish_message" /\ messages[last'.message] # NoAccount) =>
        /\ last'.result # Ok
        /\ last'.fees = Ok =>
              last'.result \in {"AccountAlreadyInUse", "MissingAccount"}
        /\ messages' = messages
        /\ message_lamports' = message_lamports]_vars

C13_Witness ==
  LastPublish /\ last.existed /\ last.result = "AccountAlreadyInUse"
    /\ messages[last.message].submission_time < clock
    /\ last.payload_len = 0

\* C14: initialize with more than MAX_LEN_GUARDIAN_KEYS keys fails with
\* InvalidInstructionData and creates no guardian set; otherwise it creates
\* the guardian set with index 0, creation_time = now and expiration_time = 0;
\* every guardian set has at most MAX_LEN_GUARDIAN_KEYS keys.
C14_InitializeBound ==
  /\ (last.op = "initialize" /\ last.keys > MAX_LEN_GUARDIAN_KEYS) =>
        /\ last.result = "InvalidInstructionData"
        /\ guardian_set = NoAccount
        /\ bridge = NoAccount
  /\ (last.op = "initialize" /\ last.keys <= MAX_LEN_GUARDIAN_KEYS) =>
        /\ last.result = Ok
        /\ guardian_set # NoAccount
        /\ Len(guardian_set.keys) = last.keys
        /\ guardian_set.index = 0
        /\ guardian_set.creation_time = clock
        /\ guardian_set.expiration_time = 0
        /\ bridge.guardian_set_index = 0
  /\ guardian_set # NoAccount => Len(guardian_set.keys) <= MAX_LEN_GUARDIAN_KEYS

\* the rejected call, after the clock has advanced
C14_Witness ==
  last.op = "initialize" /\ last.keys = MAX_LEN_GUARDIAN_KEYS + 1
    /\ last.result = "InvalidInstructionData" /\ clock > 0

(* ---------------------- the last verify_signatures -------------------- *)
LastAttest == last.op = "verify_signatures"

C16_RequireFresh ==
  (LastAttest /\ last.initial_creation /\ last.existed) =>
     /\ last.result # Ok
     /\ last.is_sysvar => last.result = "AlreadyExists"
     /\ last.left = last.before
     /\ sigs[last.sig] = last.before

\* the call names slots that are empty in the existing account and presents
\* another attestation for one that is present
C16_Witness ==
  /\ LastAttest /\ last.initial_creation /\ last.existed /\ last.is_sysvar
  /\ last.result = "AlreadyExists"
  /\ \E i \in last.signers : last.before.signatures[i] = EmptySlot
  /\ \E i \in last.signers :
        /\ last.before.signatures[i] # EmptySlot
        /\ last.before.signatures[i] # Attestation(i, last.attestations[i])

\* C17: of two post_vaa calls for the same hash, run one after the other in
\* either order, the first creates the claim of the hash and the second
\* fails with AlreadyClaimed: they never both succeed.
C17_NoDoubleFinalize ==
  [][(last.op = "post_vaa" /\ last.result = Ok /\ last'.op = "post_vaa"
        /\ last'.sig[1] = last.sig[1]) =>
        /\ last'.result = "AlreadyClaimed"
        /\ claims[last.claim].hash = sigs[last.sig].hash]_vars

\* C18: of two verify_signatures calls on the same Signatures account that
\* name disjoint slots, run one after the other in either order, no slot is
\* lost: after the second, the slots of both are present.
C18_NoLostUpdate ==
  [][(last.op = "verify_signatures" /\ last.result = Ok
        /\ last'.op = "verify_signatures" /\ last'.result = Ok
        /\ last'.sig = last.sig /\ last.signers \cap last'.signers = {}) =>
        /\ \A i \in last.signers :
              sigs'[last'.sig].signatures[i] = Attestation(i, last.attestations[i])
        /\ \A i \in last'.signers :
              sigs'[last'.sig].signatures[i] = Attestation(i, last'.attestations[i])]_vars

\* the second of two calls naming one slot each
C18_Witness ==
  LastAttest /\ last.result = Ok /\ last.existed /\ last.present_before = 1
    /\ Cardinality(last.signers) = 1 /\ Present(sigs[last.sig]) = 2

(* --------------------------- the body hash ---------------------------- *)
\* the u32 that four big-endian bytes stand for
BE32(b) == ((b[1] * 256 + b[2]) * 256 + b[3]) * 256 + b[4]

\* body is BE32(timestamp) || BE32(nonce) || emitter_chain || emitter_address
\* || payload
BodyLayout(vaa, body) ==
  /\ Len(body) = 4 + 4 + 1 + 32 + Len(vaa.payload)
  /\ \A i \in 1..Len(body) : body[i] \in 0..255
  /\ BE32(SubSeq(body, 1, 4)) = vaa.timestamp
  /\ BE32(SubSeq(body, 5, 8)) = vaa.nonce
  /\ body[9] = vaa.emitter_chain
  /\ SubSeq(body, 10, 41) = vaa.emitter_address
  /\ SubSeq(body, 42, Len(body)) = vaa.payload

\* C19: the body check_integrity hashes is BE32(timestamp) || BE32(nonce) ||
\* emitter_chain || emitter_address || payload; equal inputs give equal
\* digests, and inputs that differ in timestamp, nonce, emitter_address or
\* payload give different bodies and different digests.
C19_CanonicalHash ==
  last.op = "hashed" =>
     /\ BodyLayout(last.a, last.body_a)
     /\ BodyLayout(last.b, last.body_b)
     /\ last.a = last.b => last.hash_a = last.hash_b
     /\ (\/ last.a.timestamp # last.b.timestamp
         \/ last.a.nonce # last.b.nonce
         \/ last.a.emitter_address # last.b.emitter_address
         \/ last.a.payload # last.b.payload) =>
           /\ last.body_a # last.body_b
           /\ last.hash_a # last.hash_b

\* timestamp and nonce exchanged
C19_Witness ==
  /\ last.op = "hashed"
  /\ last.a.timestamp = 7 /\ last.a.nonce = 0
  /\ last.b.timestamp = 0 /\ last.b.nonce = 7
  /\ last.a.emitter_address = last.b.emitter_address
  /\ last.a.payload = last.b.payload
  /\ last.hash_a # last.hash_b

(* ------------------------- the EE-VAA envelope ------------------------ *)
\* C20: for a payload of at most 65535 bytes EEVAA::deserialize gives back
\* the EEVAA serialized and Instruction::deserialize gives back the
\* PostEEVAA instruction serialized; the instruction's bytes are "WHEV", the
\* kind byte 1, the length as big-endian u16 and the payload.
C20_EnvelopeRoundTrip ==
  /\ (last.op = "eevaa" /\ Len(last.payload) <= 65535) =>
        /\ last.ser.result = Ok
        /\ last.back.result = Ok
        /\ last.back.value = [payload |-> last.payload]
  /\ (last.op = "instruction" /\ Len(last.payload) <= 65535) =>
        /\ last.ser.result = Ok
        /\ last.ser.buf = <<87, 72, 69, 86, 1, Len(last.payload) \div 256,
                            Len(last.payload) % 256>> \o last.payload
        /\ last.back.result = Ok
        /\ last.back.value = [kind |-> "PostEEVAA", ee_vaa |-> [payload |-> last.payload]]

\* a payload whose length needs the high byte of the length field
C20_Witness ==
  /\ last.op = "instruction"
  /\ Len(last.payload) = 256
  /\ last.back.result = Ok
  /\ Len(last.ser.buf) = 256 + 7

(* ----------------------- the pipeline of post_vaa --------------------- *)
\* the errors of the checks of post_vaa
ValidationErrors ==
  {"PostVAAGuardianSetExpired", "PostVAAGuardianSetMismatch", "PostVAAConsensusFailed"}

\* The error of the first check that fails for the context handled, in the
\* order liveness, epoch binding, integrity, quorum; Ok when none fails.
FirstFailing ==
  IF ~HandledActive THEN "PostVAAGuardianSetExpired"
  ELSE IF ~HandledEpochMatch THEN "PostVAAGuardianSetMismatch"
  ELSE IF ~HandledHashMatch THEN "IntegrityMismatch"
  ELSE IF HandledPresent < HandledThreshold THEN "PostVAAConsensusFailed"
  ELSE Ok

\* C21: post_vaa checks liveness, epoch binding, integrity and quorum in this
\* order and returns the error of the first check that fails: expired and
\* mismatched gives the expired error, mismatched and under quorum gives the
\* mismatch error.
C21_CheckOrder ==
  (Handled /\ FirstFailing # Ok) => last.result = FirstFailing

\* C22: after a successful post_vaa at time now the message's vaa_time is
\* now, its vaa_version the submitted version, its vaa_signature_account the
\* Signatures account consumed, and the claim's vaa_time is now.
C22_FinalizeWrites ==
  (LastPost /\ last.result = Ok) =>
     /\ messages[last.message].vaa_time = clock
     /\ messages[last.message].vaa_version = VAA(last.timestamp).version
     /\ messages[last.message].vaa_signature_account = last.sig
     /\ claims[last.claim].vaa_time = clock

\* C23: a post_vaa that passes its checks succeeds, finalizes the message and
\* writes the claim, also when the refund of VAA_TX_FEE to the payer fails.
C23_RefundNotFatal ==
  (LastPost /\ last.ran /\ last.result \notin ValidationErrors) =>
     /\ last.result = Ok
     /\ last.message \in ghost.finalized
     /\ last.claim \in ghost.claimed

(* --------------------------- guardian update -------------------------- *)
\* C24: process_guardian_update changes no state (the bridge's
\* guardian_set_index and config, the guardian sets, the messages, the
\* Signatures accounts, the claims and the lamports stay as they were), and
\* the bridge's guardian_set_index is 0 in every state.
C24_UpdateNoOp ==
  /\ bridge # NoAccount => bridge.guardian_set_index = 0
  /\ [][/\ bridge' # NoAccount => bridge'.guardian_set_index = 0
        /\ last'.op = "guardian_update" => UNCHANGED ledger]_vars

\* the update called on a bridge after a successful post_vaa
C24_Witness ==
  last.op = "guardian_update" /\ last.result = Ok /\ ghost.finalized # {}
    /\ bridge.guardian_set_index = 0

(* ------------------------- quorum attainability ----------------------- *)
\* C25: for every guardian-set size n in 0..20 no step of the threshold
\* computation exceeds u16, the threshold lies in 0..n, and n present
\* signatures pass the quorum test.
C25_QuorumAttainable ==
  last.op = "consensus" =>
     /\ last.n * 10 <= 65535
     /\ ((last.n * 10) \div 3) * 2 <= 65535
     /\ last.required = (((last.n * 10) \div 3) * 2) \div (10 + 1)
     /\ 0 <= last.required
     /\ last.required <= last.n
     /\ last.count = last.n => ~last.failed

\* the largest guardian set with every slot present
C25_Witness ==
  last.op = "consensus" /\ last.n = MAX_LEN_GUARDIAN_KEYS
    /\ last.count = MAX_LEN_GUARDIAN_KEYS /\ ~last.failed

====
